---- MODULE Spec2Model ----
(***************************************************************************)
(* Economic Immune System: the immune memory store                         *)
(* (src/src/backend/services/immuneMemoryService.ts), the ledger it reads  *)
(* (the DataStore of src/src/backend/server.ts) and the evaluation path    *)
(* that feeds it (src/src/backend/services/insightsService.ts).            *)
(*                                                                         *)
(* Amounts are whole currency units and arithmetic is exact; quotients are *)
(* kept as reduced fractions [num, den], with den = 0 for the values a     *)
(* JavaScript division by zero yields (0/0 = NaN, n/0 = Infinity).         *)
(* Timestamps are clock readings in abstract milliseconds.                 *)
(***************************************************************************)
EXTENDS Integers, Sequences, FiniteSets, TLC

VARIABLES
    ledger,     \* DataStore.transactions, in insertion order
    now,        \* the wall clock read by Date.now() and new Date()
    nextId,     \* number of identifiers handed out so far
    memory,     \* ImmuneMemoryService.memory
    calls,      \* the evaluateProposal calls, each with its position
    queue,      \* the microtask queue: the calls waiting at an await, oldest first
    ret,        \* what the last read operation returned
    builds,     \* the results of the last buildRecipientProfile runs
    reader,     \* the GET /api/immune-status handler and what it has read so far
    pay,        \* the payment side: decisions, pending proposals, balance, executePayment calls
    heap,       \* the objects that the DataStore and its callers hold references to
    snapshot    \* the object a caller holds from getMemory

vars == <<ledger, now, nextId, memory, calls, queue, ret, builds, reader, pay, heap, snapshot>>

----------------------------------------------------------------------------
(* Bounds of the model *)

MaxTime == 1
MaxCalls == 2
MaxProfileLedger == 2
MaxDetectLedger == 4
MaxBuildLedger == 3
MaxCoffeeLedger == 5
MaxShareLedger == 3
MaxAdaptations == 6
MaxPayments == 3
MaxBiasLedger == 5
MaxCadenceTime == 2
MaxDeclineLedger == 4
MaxObjects == 9
MaxModifications == 2

(* Program constants *)

InitialResilience == 75
MicroCostThreshold == 50
MicroCostMinCount == 3
RoundAmountBase == 10
RoundAmountFloor == 50
ContextRoundFloor == 100
SimulatedBalance == 5000
ReserveMinimum == 100
WeeklyLimit == 1000

----------------------------------------------------------------------------
(* Inputs *)

Recipients == {"0xa", "0xb"}
NoPurpose == ""
ThreatLevels == {"LOW", "MEDIUM", "HIGH", "CRITICAL"}
Statuses == {"pending", "confirming", "completed", "failed"}
Callers == 1 .. 2

----------------------------------------------------------------------------
(* Arithmetic helpers *)

Min(a, b) == IF a <= b THEN a ELSE b
Max(a, b) == IF a >= b THEN a ELSE b
Abs(a) == IF a < 0 THEN -a ELSE a

RECURSIVE Gcd(_, _)
Gcd(a, b) == IF b = 0 THEN a ELSE Gcd(b, a % b)

\* n / d as JavaScript computes it, exact: a reduced fraction, NaN for 0/0
Quot(n, d) ==
    IF d = 0
    THEN [num |-> IF n = 0 THEN 0 ELSE IF n > 0 THEN 1 ELSE -1, den |-> 0]
    ELSE LET g == Gcd(Abs(n), Abs(d))
         IN  [num |-> n \div g, den |-> d \div g]

Whole(n) == [num |-> n, den |-> 1]

RECURSIVE SumAmounts(_)
SumAmounts(txs) ==
    IF txs = <<>> THEN 0 ELSE txs[1].amount + SumAmounts(Tail(txs))

\* a learning confidence, an IEEE double near a tenth: <<k, n>> is the double
\* n units of 2^-56 above the double nearest to k/10
Tenth(k) == <<k, 0>>

DoubleLeq(a, b) == a[1] < b[1] \/ (a[1] = b[1] /\ a[2] <= b[2])
DoubleMin(a, b) == IF DoubleLeq(a, b) THEN a ELSE b
DoubleMax(a, b) == IF DoubleLeq(a, b) THEN b ELSE a

\* <<c, c + 0.1, c - 0.1>> in double arithmetic, for every c that steps of 0.1
\* between 0.1 and 1.0 reach from 0.5
TenthSums ==
    {
      <<<<1, 0>>, <<2, 0>>, <<0, 0>>>>,
      <<<<1, 2>>, <<2, 2>>, <<0, 2>>>>,
      <<<<1, 10>>, <<2, 10>>, <<0, 10>>>>,
      <<<<2, 0>>, <<3, 4>>, <<1, 0>>>>,
      <<<<2, 2>>, <<3, 4>>, <<1, 2>>>>,
      <<<<2, 10>>, <<3, 12>>, <<1, 10>>>>,
      <<<<3, 4>>, <<4, 0>>, <<2, 2>>>>,
      <<<<3, 12>>, <<4, 8>>, <<2, 10>>>>,
      <<<<4, 0>>, <<5, 0>>, <<3, 4>>>>,
      <<<<4, 8>>, <<5, 8>>, <<3, 12>>>>,
      <<<<5, 0>>, <<6, 0>>, <<4, 0>>>>,
      <<<<5, 8>>, <<6, 8>>, <<4, 8>>>>,
      <<<<6, 0>>, <<7, 0>>, <<5, 0>>>>,
      <<<<6, 8>>, <<7, 8>>, <<5, 8>>>>,
      <<<<7, 0>>, <<8, -8>>, <<6, 0>>>>,
      <<<<7, 8>>, <<8, 0>>, <<6, 8>>>>,
      <<<<8, -8>>, <<9, -8>>, <<7, 0>>>>,
      <<<<8, 0>>, <<9, 0>>, <<7, 8>>>>,
      <<<<9, -8>>, <<10, -8>>, <<8, -8>>>>,
      <<<<9, 0>>, <<10, 0>>, <<8, 0>>>>,
      <<<<10, -8>>, <<11, -16>>, <<9, -8>>>>,
      <<<<10, 0>>, <<11, 0>>, <<9, 0>>>>
    }

PlusTenth(c) == (CHOOSE e \in TenthSums : e[1] = c)[2]
MinusTenth(c) == (CHOOSE e \in TenthSums : e[1] = c)[3]

\* Array.prototype.slice(-k)
Last(s, k) == SubSeq(s, Max(1, Len(s) - k + 1), Len(s))
\* Array.prototype.slice(0, k)
First(s, k) == SubSeq(s, 1, Min(k, Len(s)))

----------------------------------------------------------------------------
(* The ledger: DataStore.transactions *)

\* DataStore.getTransactions(): copies of the records, in insertion order
GetTransactions == ledger

ForRecipient(txs, address) == SelectSeq(txs, LAMBDA tx : tx.recipient = address)

\* generateTransactionId: the transaction counter makes the ids distinct
GenerateTransactionId == <<"tx", Len(ledger) + 1>>

\* evaluateProposal's mock transaction id, `tx-${requestId}`
MockTransactionId(n) == <<"tx-req", n>>

IsRoundAmount(tx) ==
    tx.amount % RoundAmountBase = 0 /\ tx.amount > RoundAmountFloor

----------------------------------------------------------------------------
(* Recipient Profile Builder *)

\* the cadence class with strictly rising and strictly falling amounts
analyzeTimePatternStrict(transactions) ==
    IF Len(transactions) < 3 THEN "sporadic"
    ELSE
      LET n == Len(transactions) - 1
          interval(i) == transactions[i + 1].timestamp - transactions[i].timestamp
          RECURSIVE Sum(_), SumSq(_)
          Sum(i) == IF i = 0 THEN 0 ELSE interval(i) + Sum(i - 1)
          SumSq(i) == IF i = 0 THEN 0 ELSE interval(i) * interval(i) + SumSq(i - 1)
          \* variance < avgInterval * 0.3, multiplied out by 10 * n * n
          lowVariance == 10 * (n * SumSq(n) - Sum(n) * Sum(n)) < 3 * n * Sum(n)
          isIncreasing ==
              \A i \in 1 .. n : transactions[i + 1].amount > transactions[i].amount
          isDecreasing ==
              \A i \in 1 .. n : transactions[i + 1].amount < transactions[i].amount
      IN  IF lowVariance THEN "regular"
          ELSE IF isIncreasing THEN "increasing"
          ELSE IF isDecreasing THEN "decreasing"
          ELSE "sporadic"

\* analyzeTimePattern
analyzeTimePattern(transactions) ==
    IF Len(transactions) < 3 THEN "sporadic"
    ELSE
      LET n == Len(transactions) - 1
          interval(i) == transactions[i + 1].timestamp - transactions[i].timestamp
          RECURSIVE Sum(_), SumSq(_)
          Sum(i) == IF i = 0 THEN 0 ELSE interval(i) + Sum(i - 1)
          SumSq(i) == IF i = 0 THEN 0 ELSE interval(i) * interval(i) + SumSq(i - 1)
          \* variance < avgInterval * 0.3, multiplied out by 10 * n * n
          lowVariance == 10 * (n * SumSq(n) - Sum(n) * Sum(n)) < 3 * n * Sum(n)
          isIncreasing ==
              \A i \in 1 .. n : transactions[i + 1].amount >= transactions[i].amount
          isDecreasing ==
              \A i \in 1 .. n : transactions[i + 1].amount <= transactions[i].amount
      IN  IF lowVariance THEN "regular"
          ELSE IF isIncreasing THEN "increasing"
          ELSE IF isDecreasing THEN "decreasing"
          ELSE "sporadic"

calculateConcentrationRisk(recipientTotal, allTransactions) ==
    LET totalSpending == SumAmounts(allTransactions)
    IN  IF totalSpending = 0 THEN Whole(0)
        ELSE IF 2 * recipientTotal >= totalSpending THEN Whole(1)
        ELSE Quot(2 * recipientTotal, totalSpending)

calculateConvenienceBias(transactions) ==
    Quot(Len(SelectSeq(transactions, IsRoundAmount)), Len(transactions))

calculateValueDecline(transactions) ==
    IF Len(transactions) < 3 THEN Whole(0)
    ELSE \* recentAvg > earlierAvg * 1.2, both averages over 3
         IF 5 * SumAmounts(Last(transactions, 3)) > 6 * SumAmounts(First(transactions, 3))
         THEN Quot(3, 5)
         ELSE Whole(0)

\* the purpose -> frequency map of a profile
PurposeHistogram(transactions) ==
    LET used == {transactions[i].purpose : i \in 1 .. Len(transactions)} \ {NoPurpose}
    IN  [p \in used |->
            Cardinality({i \in 1 .. Len(transactions) : transactions[i].purpose = p})]

\* a builder whose risk vector ages with the clock
buildRecipientProfileAged(address, transactions, allTransactions, t) ==
    LET totalAmount == SumAmounts(transactions)
    IN  [address |-> address,
         transactionHistory |->
            [count |-> Len(transactions),
             totalAmount |-> totalAmount,
             averageAmount |-> Quot(totalAmount, Len(transactions)),
             purposes |-> PurposeHistogram(transactions),
             timePattern |-> analyzeTimePattern(transactions)],
         riskAssessment |->
            [concentrationRisk |-> calculateConcentrationRisk(totalAmount, allTransactions),
             convenienceBias |-> calculateConvenienceBias(transactions),
             valueDecline |-> calculateValueDecline(transactions),
             overallRisk |-> t],
         lastInteraction |->
            IF transactions # <<>> THEN transactions[Len(transactions)].timestamp ELSE t]

buildRecipientProfile(address, transactions, allTransactions, t) ==
    LET totalAmount == SumAmounts(transactions)
    IN  [address |-> address,
         transactionHistory |->
            [count |-> Len(transactions),
             totalAmount |-> totalAmount,
             averageAmount |-> Quot(totalAmount, Len(transactions)),
             purposes |-> PurposeHistogram(transactions),
             timePattern |-> analyzeTimePattern(transactions)],
         riskAssessment |->
            [concentrationRisk |-> calculateConcentrationRisk(totalAmount, allTransactions),
             convenienceBias |-> calculateConvenienceBias(transactions),
             valueDecline |-> calculateValueDecline(transactions),
             overallRisk |-> 0],
         lastInteraction |->
            IF transactions # <<>> THEN transactions[Len(transactions)].timestamp ELSE t]

----------------------------------------------------------------------------
(* Pattern Detectors: each returns <<>> (null) or <<pattern>> *)

\* an occurrence's context string: its fixed text and the number printed in it
Context(text, value) == [text |-> text, value |-> value]

OccurrenceOf(tx, severity, context) ==
    [transactionId |-> tx.id, timestamp |-> tx.timestamp,
     severity |-> severity, context |-> context]

\* the pattern with a threat level that rises with the number of detections
MicroCostPatternByCount(newTransaction, recipientTxs, t) ==
    LET totalImpact == SumAmounts(recipientTxs)
    IN  [id |-> <<"pattern-micro", t>>,
         type |-> "recurring_micro_costs",
         description |-> <<"recurring_micro_costs", newTransaction.recipient>>,
         detectedAt |-> t,
         occurrences |->
             [i \in 1 .. Len(recipientTxs) |->
                 LET tx == recipientTxs[i]
                 IN  OccurrenceOf(tx, Quot(tx.amount, MicroCostThreshold),
                         IF tx.purpose # NoPurpose THEN Context(tx.purpose, 0)
                         ELSE Context("No purpose specified", 0))],
         threatLevel |-> IF Len(recipientTxs) > 4 THEN "HIGH"
                         ELSE IF Len(recipientTxs) > 3 THEN "MEDIUM" ELSE "LOW",
         isActive |-> TRUE,
         learningConfidence |-> Tenth(7),
         totalImpact |-> Whole(totalImpact)]

\* the pattern detectRecurringMicroCosts returns over the counterparty's
\* transactions below the threshold
MicroCostPattern(newTransaction, recipientTxs, t) ==
    LET totalImpact == SumAmounts(recipientTxs)
    IN  [id |-> <<"pattern-micro", t>>,
         type |-> "recurring_micro_costs",
         description |-> <<"recurring_micro_costs", newTransaction.recipient>>,
         detectedAt |-> t,
         occurrences |->
             [i \in 1 .. Len(recipientTxs) |->
                 LET tx == recipientTxs[i]
                 IN  OccurrenceOf(tx, Quot(tx.amount, MicroCostThreshold),
                         IF tx.purpose # NoPurpose THEN Context(tx.purpose, 0)
                         ELSE Context("No purpose specified", 0))],
         threatLevel |-> IF totalImpact > 200 THEN "HIGH"
                         ELSE IF totalImpact > 100 THEN "MEDIUM" ELSE "LOW",
         isActive |-> TRUE,
         learningConfidence |-> Tenth(7),
         totalImpact |-> Whole(totalImpact)]

\* the detector with the threshold itself let through
detectRecurringMicroCostsInclusive(newTransaction, allTransactions, t) ==
    IF newTransaction.amount > MicroCostThreshold THEN <<>>
    ELSE
      LET recipientTxs ==
              SelectSeq(allTransactions,
                        LAMBDA tx : /\ tx.recipient = newTransaction.recipient
                                    /\ tx.amount < MicroCostThreshold)
      IN  IF Len(recipientTxs) < MicroCostMinCount THEN <<>>
          ELSE <<MicroCostPattern(newTransaction, recipientTxs, t)>>

detectRecurringMicroCosts(newTransaction, allTransactions, t) ==
    IF newTransaction.amount >= MicroCostThreshold THEN <<>>
    ELSE
      LET recipientTxs ==
              SelectSeq(allTransactions,
                        LAMBDA tx : /\ tx.recipient = newTransaction.recipient
                                    /\ tx.amount < MicroCostThreshold)
      IN  IF Len(recipientTxs) < MicroCostMinCount THEN <<>>
          ELSE <<MicroCostPattern(newTransaction, recipientTxs, t)>>

detectVendorConcentration(newTransaction, allTransactions, t) ==
    LET recipientTotal ==
            SumAmounts(ForRecipient(allTransactions, newTransaction.recipient))
        totalSpending == SumAmounts(allTransactions)
    IN  IF totalSpending = 0 THEN <<>>
        ELSE IF 10 * recipientTotal < 3 * totalSpending THEN <<>>
        ELSE <<[id |-> <<"pattern-concentration", t>>,
                type |-> "vendor_concentration",
                description |-> <<"vendor_concentration", newTransaction.recipient>>,
                detectedAt |-> t,
                occurrences |->
                    <<[transactionId |-> newTransaction.id, timestamp |-> t,
                       severity |-> Quot(recipientTotal, totalSpending),
                       \* Math.round(concentration * 100)
                       context |-> Context("% of total spending",
                                           (200 * recipientTotal + totalSpending)
                                               \div (2 * totalSpending))]>>,
                threatLevel |-> IF 10 * recipientTotal > 6 * totalSpending THEN "HIGH"
                                ELSE IF 10 * recipientTotal > 4 * totalSpending
                                     THEN "MEDIUM" ELSE "LOW",
                isActive |-> TRUE,
                learningConfidence |-> Tenth(8),
                totalImpact |-> Whole(recipientTotal)]>>

detectConvenienceBias(newTransaction, allTransactions, t) ==
    IF ~IsRoundAmount(newTransaction) THEN <<>>
    ELSE
      LET roundAmountTxs == SelectSeq(allTransactions, IsRoundAmount)
          round == Len(roundAmountTxs)
          all == Len(allTransactions)
          \* biasRatio = round / all; 0/0 is NaN, and every comparison with NaN
          \* is false
          isNaN == all = 0
      IN  IF ~isNaN /\ 10 * round < 6 * all THEN <<>>
          ELSE <<[id |-> <<"pattern-convenience", t>>,
                  type |-> "convenience_bias",
                  description |-> <<"convenience_bias", "any">>,
                  detectedAt |-> t,
                  occurrences |->
                      [i \in 1 .. Len(Last(roundAmountTxs, 5)) |->
                          LET tx == Last(roundAmountTxs, 5)[i]
                          IN  OccurrenceOf(tx, Quot(round, all),
                                           Context("Round amount", tx.amount))],
                  threatLevel |-> IF ~isNaN /\ 10 * round > 8 * all
                                  THEN "MEDIUM" ELSE "LOW",
                  isActive |-> TRUE,
                  learningConfidence |-> Tenth(6),
                  totalImpact |-> Quot(SumAmounts(roundAmountTxs), 10)]>>

\* Array.prototype.sort by timestamp; the sort is stable, so records with equal
\* timestamps keep their ledger order
RECURSIVE SortByTime(_)
SortByTime(txs) ==
    IF txs = <<>> THEN <<>>
    ELSE LET i == CHOOSE k \in 1 .. Len(txs) :
                    /\ \A j \in 1 .. Len(txs) : txs[k].timestamp <= txs[j].timestamp
                    /\ \A j \in 1 .. k - 1 : txs[j].timestamp > txs[k].timestamp
         IN  <<txs[i]>> \o SortByTime(SubSeq(txs, 1, i - 1) \o SubSeq(txs, i + 1, Len(txs)))

\* the detector firing from an increase of exactly 20%
detectDecliningValueInclusive(newTransaction, allTransactions, t) ==
    LET recipientTxs ==
            SortByTime(ForRecipient(allTransactions, newTransaction.recipient))
        recentSum == SumAmounts(Last(recipientTxs, 2))
        earlierSum == SumAmounts(First(recipientTxs, 2))
    IN  IF Len(recipientTxs) < 4 THEN <<>>
        ELSE IF 5 * recentSum < 6 * earlierSum THEN <<>>
        ELSE <<[id |-> <<"pattern-declining", t>>,
                type |-> "declining_value",
                description |-> <<"declining_value", newTransaction.recipient>>,
                detectedAt |-> t,
                occurrences |->
                    [i \in 1 .. Len(Last(recipientTxs, 3)) |->
                        LET tx == Last(recipientTxs, 3)[i]
                        IN  OccurrenceOf(tx, Quot(2 * tx.amount, earlierSum),
                                         Context("Amount", tx.amount))],
                threatLevel |-> IF 2 * recentSum > 3 * earlierSum THEN "HIGH" ELSE "MEDIUM",
                isActive |-> TRUE,
                learningConfidence |-> Tenth(5),
                totalImpact |-> Quot(recentSum - earlierSum, 2)]>>

\* detectDecliningValue
detectDecliningValue(newTransaction, allTransactions, t) ==
    LET recipientTxs ==
            SortByTime(ForRecipient(allTransactions, newTransaction.recipient))
        recentSum == SumAmounts(Last(recipientTxs, 2))
        earlierSum == SumAmounts(First(recipientTxs, 2))
    IN  IF Len(recipientTxs) < 4 THEN <<>>
        \* recentAvg <= earlierAvg * 1.2, both averages over 2
        ELSE IF 5 * recentSum <= 6 * earlierSum THEN <<>>
        ELSE <<[id |-> <<"pattern-declining", t>>,
                type |-> "declining_value",
                description |-> <<"declining_value", newTransaction.recipient>>,
                detectedAt |-> t,
                occurrences |->
                    [i \in 1 .. Len(Last(recipientTxs, 3)) |->
                        LET tx == Last(recipientTxs, 3)[i]
                        IN  OccurrenceOf(tx, Quot(2 * tx.amount, earlierSum),
                                         Context("Amount", tx.amount))],
                threatLevel |-> IF 2 * recentSum > 3 * earlierSum THEN "HIGH" ELSE "MEDIUM",
                isActive |-> TRUE,
                learningConfidence |-> Tenth(5),
                totalImpact |-> Quot(recentSum - earlierSum, 2)]>>

\* detectPatterns: the four detectors over the whole ledger, results in order
detectPatterns(newTransaction, t) ==
    LET allTransactions == GetTransactions
    IN  detectRecurringMicroCosts(newTransaction, allTransactions, t)
        \o detectVendorConcentration(newTransaction, allTransactions, t)
        \o detectConvenienceBias(newTransaction, allTransactions, t)
        \o detectDecliningValue(newTransaction, allTransactions, t)

\* buildImmuneContext: the pattern labels it lists for a proposal, in order
\* (every transaction of the model is of the last 30 days)
buildImmuneContext(recipient, amount) ==
    LET transactions == GetTransactions
        recipientTransactions == ForRecipient(transactions, recipient)
        roundAmountTransactions ==
            SelectSeq(transactions,
                      LAMBDA tx : tx.amount % RoundAmountBase = 0
                                  /\ tx.amount > ContextRoundFloor)
    IN  (IF amount < MicroCostThreshold /\ Len(recipientTransactions) >= MicroCostMinCount
         THEN <<"recurring_micro_costs">> ELSE <<>>)
        \o (IF SumAmounts(transactions) > 0
               /\ 10 * SumAmounts(recipientTransactions) > 3 * SumAmounts(transactions)
            THEN <<"vendor_concentration">> ELSE <<>>)
        \o (IF amount % RoundAmountBase = 0 /\ amount > ContextRoundFloor
               /\ 10 * Len(roundAmountTransactions) > 6 * Len(transactions)
            THEN <<"convenience_bias">> ELSE <<>>)

----------------------------------------------------------------------------
(* Immune Memory Store: the operations on ImmuneMemoryService.memory *)

\* a value read as NaN: min, max and + keep it
NaN == -1000000

\* the memory set up by the constructor
NewMemory(t) ==
    [patterns |-> <<>>,
     recipients |-> [r \in Recipients |-> <<>>],
     signals |-> <<>>,
     adaptations |-> <<>>,
     resilienceScore |-> InitialResilience,
     lastUpdated |-> t]

\* Map.get on memory.patterns: the position of the pattern with this id, or 0
PatternIndex(mem, patternId) ==
    IF \E i \in 1 .. Len(mem.patterns) : mem.patterns[i].id = patternId
    THEN CHOOSE i \in 1 .. Len(mem.patterns) : mem.patterns[i].id = patternId
    ELSE 0

\* a severity scale that does not tell HIGH from CRITICAL
SeverityCoarse(threatLevel) ==
    IF threatLevel \in {"CRITICAL", "HIGH"} THEN 10
    ELSE IF threatLevel = "MEDIUM" THEN 6
    ELSE 4

Severity(threatLevel) ==
    IF threatLevel = "CRITICAL" THEN 10
    ELSE IF threatLevel = "HIGH" THEN 8
    ELSE IF threatLevel = "MEDIUM" THEN 6
    ELSE 4

updateRecipientProfile(mem, transaction, t) ==
    LET existing == mem.recipients[transaction.recipient]
        allRecipientTxs == ForRecipient(GetTransactions, transaction.recipient)
        profile ==
            IF existing # <<>> THEN existing[1]
            ELSE buildRecipientProfile(transaction.recipient, allRecipientTxs,
                                       GetTransactions, t)
    IN  [mem EXCEPT !.recipients[transaction.recipient] = <<profile>>]

\* the id recordPatternDetection looks up and stores under
PatternId(patternType, transaction, t) == <<patternType, transaction.recipient, t>>

recordPatternDetection(mem, patternType, transaction, threatLevel, t) ==
    LET patternId == PatternId(patternType, transaction, t)
        at == PatternIndex(mem, patternId)
        occurrence ==
            OccurrenceOf(transaction, Severity(threatLevel),
                         IF transaction.purpose # NoPurpose
                         THEN Context(transaction.purpose, 0)
                         ELSE Context("No context", 0))
    IN  IF at # 0
        THEN [mem EXCEPT !.patterns[at].occurrences = Append(@, occurrence)]
        ELSE [mem EXCEPT !.patterns =
                 Append(@, [id |-> patternId,
                            type |-> patternType,
                            description |-> <<patternType, transaction.recipient>>,
                            detectedAt |-> t,
                            occurrences |-> <<occurrence>>,
                            threatLevel |-> threatLevel,
                            isActive |-> TRUE,
                            learningConfidence |-> Tenth(5),
                            totalImpact |-> Whole(transaction.amount)])]

\* the score update without its bounds
UnclampedScore(score, impact) ==
    IF score = NaN \/ impact = NaN THEN NaN ELSE score + impact

\* Math.max(0, Math.min(100, score + impact))
ClampScore(score, impact) ==
    IF score = NaN \/ impact = NaN THEN NaN
    ELSE Max(0, Min(100, score + impact))

updateResilienceScore(mem, impact) ==
    [mem EXCEPT !.resilienceScore = ClampScore(@, impact)]

generateRiskSignal(mem, transaction, decision, t) ==
    [mem EXCEPT !.signals =
        Append(@, [id |-> <<"signal", t, Len(mem.signals) + 1>>,
                   type |-> IF decision.patterns_detected # <<>>
                            THEN decision.patterns_detected[1]
                            ELSE "recurring_micro_costs",
                   severity |-> decision.threat_level,
                   detectedAt |-> t,
                   relatedTransactions |-> <<transaction.id>>,
                   isResolved |-> FALSE])]

\* every stored signal, resolved or not
AllRiskSignals(mem) == mem.signals

\* getActiveRiskSignals
ActiveRiskSignals(mem) == SelectSeq(mem.signals, LAMBDA sig : ~sig.isResolved)

\* the tail of updateMemoryFromTransaction raising a signal for CRITICAL alone
FinishUpdateCriticalOnly(mem, transaction, decision, t) ==
    LET scored == updateResilienceScore(mem, decision.resilience_impact)
        signalled ==
            IF decision.threat_level = "CRITICAL"
            THEN generateRiskSignal(scored, transaction, decision, t)
            ELSE scored
    IN  [signalled EXCEPT !.lastUpdated = t]

\* the tail of updateMemoryFromTransaction, after the last await: score, signal,
\* lastUpdated
FinishUpdate(mem, transaction, decision, t) ==
    LET scored == updateResilienceScore(mem, decision.resilience_impact)
        signalled ==
            IF decision.threat_level \in {"HIGH", "CRITICAL"}
            THEN generateRiskSignal(scored, transaction, decision, t)
            ELSE scored
    IN  [signalled EXCEPT !.lastUpdated = t]

\* the confidence update with its floor at 0.2
AdjustConfidenceHighFloor(confidence, outcome) ==
    IF outcome = "success" THEN DoubleMin(Tenth(10), PlusTenth(confidence))
    ELSE DoubleMax(Tenth(2), MinusTenth(confidence))

\* adaptSensitivity's new learning confidence:
\* Math.min(1.0, c + 0.1) on success, Math.max(0.1, c - 0.1) on failure
AdjustConfidence(confidence, outcome) ==
    IF outcome = "success" THEN DoubleMin(Tenth(10), PlusTenth(confidence))
    ELSE DoubleMax(Tenth(1), MinusTenth(confidence))

\* the event adaptSensitivity records; suffix is the Math.random part of its id
AdaptationEvent(patternType, outcome, t, suffix) ==
    [id |-> <<"adapt", t, suffix>>,
     timestamp |-> t,
     patternType |-> patternType,
     adjustment |-> IF outcome = "success" THEN "maintain" ELSE "increase",
     reason |-> IF outcome = "success" THEN "Pattern detection was accurate"
                ELSE "Pattern detection needs improvement",
     outcome |-> outcome]

\* adaptSensitivity without its audit record
adaptSensitivityUnrecorded(mem, patternType, outcome, t, suffix) ==
    [mem EXCEPT
        !.patterns =
            [i \in 1 .. Len(@) |->
                IF @[i].type = patternType
                THEN [@[i] EXCEPT !.learningConfidence = AdjustConfidence(@, outcome)]
                ELSE @[i]]]

adaptSensitivity(mem, patternType, outcome, t, suffix) ==
    [mem EXCEPT
        !.adaptations = Append(@, AdaptationEvent(patternType, outcome, t, suffix)),
        !.patterns =
            [i \in 1 .. Len(@) |->
                IF @[i].type = patternType
                THEN [@[i] EXCEPT !.learningConfidence = AdjustConfidence(@, outcome)]
                ELSE @[i]]]

----------------------------------------------------------------------------
(* Decisions and requests *)

\* a decision as the engine reads it; `missing` names the fields the parsed
\* JSON lacks: such a threat level reads as undefined, such an impact adds up
\* to NaN
Decision(threat, patterns, impact, recommendation, missing) ==
    [threat_level |-> IF "threat_level" \in missing THEN "undefined" ELSE threat,
     patterns_detected |-> IF "patterns_detected" \in missing THEN <<>> ELSE patterns,
     resilience_impact |-> IF "resilience_impact" \in missing THEN NaN ELSE impact,
     recommendation |-> recommendation,
     missing |-> missing]

ValidDecisions ==
    { Decision("LOW", <<>>, 10, "approve", {}),
      Decision("MEDIUM", <<"vendor_concentration">>, -10, "approve", {}),
      Decision("HIGH", <<"recurring_micro_costs", "vendor_concentration">>, -150,
               "modify", {}),
      Decision("CRITICAL", <<"recurring_micro_costs">>, 150, "reject", {}) }

\* JSON.parse('{}') and answers that lack one required field
MalformedDecisions ==
    { Decision("LOW", <<>>, 0, "approve",
               {"threat_level", "patterns_detected", "resilience_impact"}),
      Decision("HIGH", <<>>, -10, "modify", {"patterns_detected"}),
      Decision("MEDIUM", <<"recurring_micro_costs">>, 0, "approve", {"resilience_impact"}),
      Decision("LOW", <<"recurring_micro_costs">>, -10, "approve", {"threat_level"}) }

Request(recipient, amount, purpose) ==
    [recipient |-> recipient, amount |-> amount, purpose |-> purpose]

ValidRequests ==
    {Request("0xa", 15, "coffee"), Request("0xb", 60, NoPurpose)}
InvalidRequests == {Request("0xa", -5, NoPurpose), Request("0xa", 0, NoPurpose)}

\* validateProposal: the amount checks (the address checks hold of Recipients)
validateProposal(request) == request.amount > 0 /\ request.amount <= 1000000

----------------------------------------------------------------------------
(* State and actions *)

NoCall == [pc |-> "idle"]
NoReturn == [op |-> "none", n |-> 0]

\* what a read operation returns; n tells one return from the next
Return(op, arg, value) == [op |-> op, n |-> 1 - ret.n, arg |-> arg, value |-> value]

\* the immune-status handler's place in the microtask queue
StatusReader == 0
NoReader == [pc |-> "idle"]

\* what an immune-status response tells of a memory
StatusOf(mem) ==
    [resilienceScore |-> mem.resilienceScore,
     activeRiskSignals |-> ActiveRiskSignals(mem),
     learnedPatternsCount |-> Len(mem.patterns)]

\* while the handler is at work, `during` collects what every memory state the
\* store passes through would have answered
Watch ==
    reader' = IF reader.pc = "idle" THEN reader
              ELSE [reader EXCEPT !.during = @ \cup {StatusOf(memory')}]

\* the objects of the heap that the DataStore and its callers reach, by
\* address; a field that holds an object holds its address. Nothing is
\* allocated yet, the DataStore's maps are empty, the caller holds nothing.
NoObjects ==
    [objects |-> <<>>,
     transactions |-> <<>>,
     decisions |-> <<>>,
     held |-> {},
     modified |-> 0]

\* `{ ...object }`: a new object with the same fields, the nested objects shared
Spread(objects, a) == Append(objects, objects[a])

\* what a caller reads through a decision object
DecisionValue(objects, a) ==
    [recommendation |-> objects[a].recommendation,
     suggested_constraints |->
         [max_amount |-> objects[objects[a].suggested_constraints].max_amount]]

\* what a caller reads through a transaction object
TransactionValue(objects, a) ==
    [id |-> objects[a].id,
     amount |-> objects[a].amount,
     status |-> objects[a].status,
     decision |-> DecisionValue(objects, objects[a].decision)]

\* the object a path of fields leads to, from the object at a
RECURSIVE Target(_, _, _)
Target(objects, a, path) ==
    IF Len(path) = 1 THEN a ELSE Target(objects, objects[a][path[1]], Tail(path))

\* the path names fields of the object at a and of its nested objects
RECURSIVE HasPath(_, _, _)
HasPath(objects, a, path) ==
    /\ path[1] \in DOMAIN objects[a]
    /\ Len(path) > 1 => HasPath(objects, objects[a][path[1]], Tail(path))

\* the executePayment calls that can be under way together
PayCallers == 1 .. 2
NoPayCall == [pc |-> "idle"]

\* DataStore.decisions and pendingProposals, the simulated balance and the
\* executePayment calls, none started yet
NoPayments ==
    [decisions |-> <<>>,
     pendingProposals |-> {},
     balance |-> SimulatedBalance,
     started |-> 0,
     calls |-> [p \in PayCallers |-> NoPayCall]]

\* DataStore.saveDecision: the recommendation kept under the request id
saveDecision(payments, requestId, recommendation) ==
    [payments EXCEPT !.decisions = (requestId :> recommendation) @@ @]

\* calculateWeeklySpend: the completed transactions (all of them fall in the week)
WeeklySpend == SumAmounts(SelectSeq(GetTransactions, LAMBDA tx : tx.status = "completed"))

\* the recommendation of callSimulatedEngine, the fallback of evaluateProposal,
\* from the wallet context evaluateProposal read when it started
FallbackRecommendation(amount) ==
    IF amount > pay.balance THEN "reject"
    ELSE IF 10 * WeeklySpend > 9 * WeeklyLimit THEN "reject"
    ELSE IF 100 * WeeklySpend > 75 * WeeklyLimit \/ 10 * amount > 3 * pay.balance
         THEN "modify"
    ELSE "approve"

\* DataStore.generateProposalKey
ProposalKey(recipient, amount) == <<recipient, amount>>

\* a payment call that holds its proposal: past the duplicate check and not
\* yet over
PayInFlight == {p \in PayCallers : pay.calls[p].pc \in {"balance", "paying", "timer"}}

\* the position in the ledger of the transaction with this id
LedgerIndex(id) == CHOOSE i \in 1 .. Len(ledger) : ledger[i].id = id

InFlight == {c \in Callers : calls[c].pc = "loop"}

\* a new call takes the first record that is not in flight
FreeSlot(c) == calls[c].pc # "loop" /\ \A k \in 1 .. c - 1 : calls[k].pc = "loop"

\* no caller holds a memory object yet
NoSnapshot == [held |-> FALSE]

\* getMemory: { ...this.memory }, a new object with the memory's own fields,
\* the score and lastUpdated copied by value, the two Maps and the two arrays
\* the very objects of the service. at is what the memory held at the call.
getMemory(mem) ==
    [held |-> TRUE,
     own |-> [resilienceScore |-> mem.resilienceScore, lastUpdated |-> mem.lastUpdated],
     at |-> mem]

\* what the holder of the object reads from it now: the copied fields as they
\* were, the Maps and arrays as the service has them now (it never assigns
\* new ones)
SnapshotValue ==
    [patterns |-> memory.patterns,
     recipients |-> memory.recipients,
     signals |-> memory.signals,
     adaptations |-> memory.adaptations,
     resilienceScore |-> snapshot.own.resilienceScore,
     lastUpdated |-> snapshot.own.lastUpdated]

Init ==
    /\ ledger = <<>>
    /\ now = 0
    /\ nextId = 0
    /\ memory = NewMemory(0)
    /\ calls = [c \in Callers |-> NoCall]
    /\ queue = <<>>
    /\ ret = NoReturn
    /\ builds = <<>>
    /\ reader = NoReader
    /\ pay = NoPayments
    /\ heap = NoObjects
    /\ snapshot = NoSnapshot

\* the clock moves on
Tick ==
    /\ now < MaxTime
    /\ now' = now + 1
    /\ UNCHANGED <<ledger, nextId, memory, calls, queue, ret, builds, reader, pay, heap, snapshot>>

\* the clock of the runs that need three distinct instants
Elapse ==
    /\ now < MaxCadenceTime
    /\ now' = now + 1
    /\ UNCHANGED <<ledger, nextId, memory, calls, queue, ret, builds, reader, pay, heap, snapshot>>

\* executePayment's record creation: DataStore.saveTransaction of a pending
\* transaction stamped with the current time
SaveTransaction(recipient, amount, purpose) ==
    /\ ledger' = Append(ledger, [id |-> GenerateTransactionId,
                                 timestamp |-> now,
                                 recipient |-> recipient,
                                 amount |-> amount,
                                 purpose |-> purpose,
                                 status |-> "pending"])
    /\ UNCHANGED <<now, nextId, memory, calls, queue, ret, builds, reader, pay, heap, snapshot>>

\* the status changes the payment service makes through
\* DataStore.updateTransaction: execution result, delayed confirmation,
\* failure, cancellation, retry
StatusMoves ==
    { <<"pending", "confirming">>, <<"pending", "completed">>, <<"pending", "failed">>,
      <<"confirming", "completed">>, <<"failed", "pending">> }

UpdateTransaction(i, status) ==
    /\ i \in 1 .. Len(ledger)
    /\ <<ledger[i].status, status>> \in StatusMoves
    /\ ledger' = [ledger EXCEPT ![i].status = status]
    /\ UNCHANGED <<now, nextId, memory, calls, queue, ret, builds, reader, pay, heap, snapshot>>

\* POST /api/evaluate with a request validateProposal refuses
Reject(c, request) ==
    /\ FreeSlot(c)
    /\ nextId < MaxCalls
    /\ ~validateProposal(request)
    /\ nextId' = nextId + 1
    /\ calls' = [calls EXCEPT ![c] = [pc |-> "rejected"]]
    /\ UNCHANGED <<ledger, now, memory, queue, ret, builds, reader, pay, heap, snapshot>>

\* evaluateProposal when the reasoning call throws: the fallback decision is
\* returned and the memory is not touched
EvaluateFallback(c, request) ==
    /\ FreeSlot(c)
    /\ nextId < MaxCalls
    /\ validateProposal(request)
    /\ nextId' = nextId + 1
    /\ calls' = [calls EXCEPT ![c] = [pc |-> "fallback"]]
    /\ pay' = saveDecision(pay, nextId + 1, FallbackRecommendation(request.amount))
    /\ UNCHANGED <<ledger, now, memory, queue, ret, builds, reader, heap, snapshot>>

\* evaluateProposal from the reasoning call's answer to the first await of
\* updateMemoryFromTransaction: the mock transaction, then updateRecipientProfile.
\* At most `cap` calls are in flight.
Evaluate(c, request, decision, cap) ==
    /\ FreeSlot(c)
    /\ Cardinality(InFlight) < cap
    /\ nextId < MaxCalls
    /\ validateProposal(request)
    /\ LET mockTransaction ==
               [id |-> MockTransactionId(nextId + 1),
                timestamp |-> now,
                recipient |-> request.recipient,
                amount |-> request.amount,
                purpose |-> request.purpose,
                status |-> "pending"]
       IN  /\ memory' = updateRecipientProfile(memory, mockTransaction, now)
           /\ calls' = [calls EXCEPT ![c] =
                          [pc |-> "loop", tx |-> mockTransaction, decision |-> decision,
                           idx |-> 1, before |-> memory,
                           fallback |-> FallbackRecommendation(request.amount)]]
    /\ nextId' = nextId + 1
    /\ queue' = Append(queue, c)
    /\ pay' = saveDecision(pay, nextId + 1, decision.recommendation)
    /\ Watch
    /\ UNCHANGED <<ledger, now, ret, builds, heap, snapshot>>

\* updateMemoryFromTransaction resumed after an await, the oldest waiting call
\* first (each await waits on an already settled promise, so a call that awaits
\* again goes to the back of the microtask queue): the next
\* recordPatternDetection of the loop, or, the loop over, the score, the signal
\* and lastUpdated. Iterating patterns_detected when the decision has none
\* throws, and evaluateProposal's catch turns to the fallback.
Resume(c) ==
    /\ queue # <<>> /\ Head(queue) = c
    /\ calls[c].pc = "loop"
    /\ LET call == calls[c]
           d == call.decision
       IN  IF "patterns_detected" \in d.missing
           THEN /\ calls' = [calls EXCEPT ![c].pc = "failed"]
                /\ queue' = Tail(queue)
                /\ pay' = saveDecision(pay, call.tx.id[2], call.fallback)
                /\ UNCHANGED memory
           ELSE IF call.idx <= Len(d.patterns_detected)
           THEN /\ memory' = recordPatternDetection(memory, d.patterns_detected[call.idx],
                                                    call.tx, d.threat_level, now)
                /\ calls' = [calls EXCEPT ![c].idx = @ + 1]
                /\ queue' = Append(Tail(queue), c)
                /\ UNCHANGED pay
           ELSE /\ memory' = FinishUpdate(memory, call.tx, d, now)
                /\ calls' = [calls EXCEPT ![c].pc = "done"]
                /\ queue' = Tail(queue)
                /\ UNCHANGED pay
    /\ Watch
    /\ UNCHANGED <<ledger, now, nextId, ret, builds, heap, snapshot>>

\* getRecipientProfile
GetRecipientProfile(address) ==
    LET existing == memory.recipients[address]
        transactions == ForRecipient(GetTransactions, address)
        profile == buildRecipientProfile(address, transactions, GetTransactions, now)
    IN  /\ IF existing # <<>>
           THEN /\ ret' = Return("getRecipientProfile", address, existing)
                /\ UNCHANGED memory
           ELSE IF transactions = <<>>
           THEN /\ ret' = Return("getRecipientProfile", address, <<>>)
                /\ UNCHANGED memory
           ELSE /\ ret' = Return("getRecipientProfile", address, <<profile>>)
                /\ memory' = [memory EXCEPT !.recipients[address] = <<profile>>]
        /\ UNCHANGED <<ledger, now, nextId, calls, queue, builds, reader, pay, heap, snapshot>>

\* getMemory called by a caller that keeps the object
GetMemory ==
    /\ snapshot' = getMemory(memory)
    /\ UNCHANGED <<ledger, now, nextId, memory, calls, queue, ret, builds, reader, pay, heap>>

\* a detectPatterns that records what it detects, as the evaluation path does
DetectPatternsRecording(newTransaction) ==
    LET detected == detectPatterns(newTransaction, now)
    IN  /\ ret' = Return("detectPatterns", newTransaction, detected)
        /\ memory' = IF detected = <<>> THEN memory
                     ELSE recordPatternDetection(memory, detected[1].type, newTransaction,
                                                 detected[1].threatLevel, now)
        /\ UNCHANGED <<ledger, now, nextId, calls, queue, builds, reader, pay, heap, snapshot>>

\* detectPatterns on a transaction: one of the ledger, or one not saved
DetectPatterns(newTransaction) ==
    /\ ret' = Return("detectPatterns", newTransaction, detectPatterns(newTransaction, now))
    /\ UNCHANGED <<ledger, now, nextId, memory, calls, queue, builds, reader, pay, heap, snapshot>>

\* buildImmuneContext run for a proposal over the current ledger
BuildImmuneContext(recipient, amount) ==
    /\ ret' = Return("buildImmuneContext", amount, buildImmuneContext(recipient, amount))
    /\ UNCHANGED <<ledger, now, nextId, memory, calls, queue, builds, reader, pay, heap, snapshot>>

\* buildRecipientProfile run for an address over the current ledger; the last
\* two runs are kept
BuildRecipientProfile(address) ==
    /\ builds' = Last(Append(builds,
                        [address |-> address, seen |-> Len(GetTransactions), at |-> now,
                         profile |-> buildRecipientProfile(address,
                                        ForRecipient(GetTransactions, address),
                                        GetTransactions, now)]), 2)
    /\ UNCHANGED <<ledger, now, nextId, memory, calls, queue, ret, reader, pay, heap, snapshot>>

\* adaptSensitivity: no await inside, so the whole call is one step
AdaptSensitivity(patternType, outcome, suffix) ==
    /\ Len(memory.adaptations) < MaxAdaptations
    /\ memory' = adaptSensitivity(memory, patternType, outcome, now, suffix)
    /\ ret' = Return("adaptSensitivity", <<patternType, outcome>>, <<>>)
    /\ UNCHANGED <<ledger, now, nextId, calls, queue, builds, reader, pay, heap, snapshot>>

\* an operator marks a signal resolved, through the signal objects that
\* getMemory hands out
ResolveSignal(i) ==
    /\ i \in 1 .. Len(memory.signals)
    /\ ~memory.signals[i].isResolved
    /\ memory' = [memory EXCEPT !.signals[i].isResolved = TRUE]
    /\ Watch
    /\ UNCHANGED <<ledger, now, nextId, calls, queue, ret, builds, pay, heap, snapshot>>

\* getActiveRiskSignals
GetActiveRiskSignals ==
    /\ ret' = Return("getActiveRiskSignals", <<>>, ActiveRiskSignals(memory))
    /\ UNCHANGED <<ledger, now, nextId, memory, calls, queue, builds, reader, pay, heap, snapshot>>

\* GET /api/immune-status up to its first await: calculateResilienceScore
StatusScore ==
    /\ reader.pc = "idle"
    /\ reader' = [pc |-> "score",
                  resilienceScore |-> memory.resilienceScore,
                  during |-> {StatusOf(memory)}]
    /\ queue' = Append(queue, StatusReader)
    /\ UNCHANGED <<ledger, now, nextId, memory, calls, ret, builds, pay, heap, snapshot>>

\* the handler resumed: getActiveRiskSignals, and its second await
StatusSignals ==
    /\ reader.pc = "score"
    /\ queue # <<>> /\ Head(queue) = StatusReader
    /\ reader' = [pc |-> "signals",
                  resilienceScore |-> reader.resilienceScore,
                  activeRiskSignals |-> ActiveRiskSignals(memory),
                  during |-> reader.during]
    /\ queue' = Append(Tail(queue), StatusReader)
    /\ UNCHANGED <<ledger, now, nextId, memory, calls, ret, builds, pay, heap, snapshot>>

\* the handler resumed again: getPatterns, and the response
StatusRespond ==
    /\ reader.pc = "signals"
    /\ queue # <<>> /\ Head(queue) = StatusReader
    /\ ret' = Return("immuneStatus", reader.during,
                     [resilienceScore |-> reader.resilienceScore,
                      activeRiskSignals |-> reader.activeRiskSignals,
                      learnedPatternsCount |-> Len(memory.patterns)])
    /\ reader' = NoReader
    /\ queue' = Tail(queue)
    /\ UNCHANGED <<ledger, now, nextId, memory, calls, builds, pay, heap, snapshot>>

\* executePayment up to its first await, as call p: the duplicate check, the
\* decision lookups, and hasSufficientBalance called (getWalletBalance reads
\* the simulated balance at the call)
executePayment(p, requestId, recipient, amount) ==
    LET key == ProposalKey(recipient, amount)
        outcome ==
            IF key \in pay.pendingProposals THEN "duplicate"
            ELSE IF requestId \notin DOMAIN pay.decisions THEN "no-decision"
            ELSE IF pay.decisions[requestId] = "reject" THEN "rejected"
            ELSE "balance"
    IN  [pay EXCEPT !.started = @ + 1,
                    !.calls[p] = [pc |-> outcome,
                                  requestId |-> requestId,
                                  recipient |-> recipient,
                                  amount |-> amount,
                                  read |-> pay.balance,
                                  txId |-> <<>>]]

\* a new call of executePayment takes the first record that is not in flight
FreePaySlot(p) ==
    /\ p \notin PayInFlight
    /\ \A q \in 1 .. p - 1 : q \in PayInFlight
    /\ pay.started < MaxPayments

\* POST /api/pay
ExecutePayment(p, requestId, recipient, amount) ==
    /\ FreePaySlot(p)
    /\ pay' = executePayment(p, requestId, recipient, amount)
    /\ UNCHANGED <<ledger, now, nextId, memory, calls, queue, ret, builds, reader, heap, snapshot>>

\* retryTransaction, of the i-th record of the ledger: a failed transaction is
\* set back to pending and executePayment is called with its request
RetryTransaction(p, i) ==
    /\ FreePaySlot(p)
    /\ i \in 1 .. Len(ledger)
    /\ ledger[i].status = "failed"
    /\ ledger' = [ledger EXCEPT ![i].status = "pending"]
    /\ pay' = executePayment(p, ledger[i].requestId, ledger[i].recipient, ledger[i].amount)
    /\ UNCHANGED <<now, nextId, memory, calls, queue, ret, builds, reader, heap, snapshot>>

\* cancelTransaction, of the i-th record of the ledger: a pending transaction
\* is set to failed and its proposal is no longer pending
CancelTransaction(i) ==
    /\ i \in 1 .. Len(ledger)
    /\ ledger[i].status = "pending"
    /\ ledger' = [ledger EXCEPT ![i].status = "failed"]
    /\ pay' = [pay EXCEPT !.pendingProposals =
                              @ \ {ProposalKey(ledger[i].recipient, ledger[i].amount)}]
    /\ UNCHANGED <<now, nextId, memory, calls, queue, ret, builds, reader, heap, snapshot>>

\* executePayment resumed with the answer of hasSufficientBalance: the
\* proposal marked pending and the transaction saved as pending, then
\* executeCirclePayment awaited
PayResume(p) ==
    /\ pay.calls[p].pc = "balance"
    /\ LET call == pay.calls[p]
       IN  IF call.read - call.amount >= ReserveMinimum
           THEN /\ pay' = [pay EXCEPT
                             !.pendingProposals =
                                 @ \cup {ProposalKey(call.recipient, call.amount)},
                             !.calls[p].pc = "paying",
                             !.calls[p].txId = GenerateTransactionId]
                /\ ledger' = Append(ledger, [id |-> GenerateTransactionId,
                                             requestId |-> call.requestId,
                                             timestamp |-> now,
                                             recipient |-> call.recipient,
                                             amount |-> call.amount,
                                             purpose |-> NoPurpose,
                                             status |-> "pending"])
           ELSE /\ pay' = [pay EXCEPT !.calls[p].pc = "insufficient"]
                /\ UNCHANGED ledger
    /\ UNCHANGED <<now, nextId, memory, calls, queue, ret, builds, reader, heap, snapshot>>

\* what executeCirclePayment can end with
PaymentResults == {"confirming", "completed", "failed", "throw"}

\* DataStore.getTransactionByRequestId: the first transaction of the request
TransactionByRequestId(requestId) ==
    LET found == {i \in 1 .. Len(ledger) :
                    "requestId" \in DOMAIN ledger[i] /\ ledger[i].requestId = requestId}
    IN  IF found = {} THEN 0 ELSE CHOOSE i \in found : \A j \in found : i <= j

\* executePayment resumed with the result of executeCirclePayment: the
\* transaction updated, the balance deducted and the confirmation timer set,
\* or, executeCirclePayment having thrown, the catch block
PaySettle(p, result) ==
    /\ pay.calls[p].pc = "paying"
    /\ LET call == pay.calls[p]
       IN  IF result # "throw"
           THEN /\ ledger' = [ledger EXCEPT ![LedgerIndex(call.txId)].status = result]
                /\ pay' = [pay EXCEPT !.balance = Max(0, @ - call.amount),
                                      !.calls[p].pc = "timer"]
           ELSE /\ ledger' = [ledger EXCEPT
                                ![TransactionByRequestId(call.requestId)].status = "failed"]
                /\ pay' = [pay EXCEPT
                             !.pendingProposals =
                                 @ \ {ProposalKey(call.recipient, call.amount)},
                             !.calls[p].pc = "failed"]
    /\ UNCHANGED <<now, nextId, memory, calls, queue, ret, builds, reader, heap, snapshot>>

\* the confirmation timer of executePayment: the transaction completed and
\* the proposal no longer pending
PayConfirm(p) ==
    /\ pay.calls[p].pc = "timer"
    /\ LET call == pay.calls[p]
       IN  /\ ledger' = [ledger EXCEPT ![LedgerIndex(call.txId)].status = "completed"]
           /\ pay' = [pay EXCEPT
                        !.pendingProposals =
                            @ \ {ProposalKey(call.recipient, call.amount)},
                        !.calls[p].pc = "completed"]
    /\ UNCHANGED <<now, nextId, memory, calls, queue, ret, builds, reader, heap, snapshot>>


\* the values a caller gives the fields of the objects
StoreIds == {"tx-1"}
StoreAmounts == {10, 999999}
StoreStatuses == {"pending", "failed"}
StoreRecommendations == {"approve", "reject"}
StoreMaxAmounts == {7, 70}
FieldPaths ==
    { <<"amount">>, <<"status">>, <<"recommendation">>,
      <<"decision", "recommendation">>,
      <<"suggested_constraints", "max_amount">>,
      <<"decision", "suggested_constraints", "max_amount">> }
FieldValues ==
    [amount |-> StoreAmounts, status |-> StoreStatuses,
     recommendation |-> StoreRecommendations, max_amount |-> StoreMaxAmounts]

\* a caller builds a transaction with its decision and passes it to
\* DataStore.saveTransaction, which keeps `{ ...transaction }`
StoreSaveTransaction(id, amount, status, recommendation, max) ==
    /\ Len(heap.objects) + 4 <= MaxObjects
    /\ LET n == Len(heap.objects)
           built == heap.objects
                    \o << [max_amount |-> max],
                          [recommendation |-> recommendation,
                           suggested_constraints |-> n + 1],
                          [id |-> id, amount |-> amount, status |-> status,
                           decision |-> n + 2] >>
       IN  heap' = [heap EXCEPT !.objects = Spread(built, n + 3),
                                !.transactions = (id :> n + 4) @@ @,
                                !.held = @ \cup {n + 3}]
    /\ UNCHANGED <<ledger, now, nextId, memory, calls, queue, ret, builds, reader, pay, snapshot>>

\* DataStore.getTransaction: `{ ...tx }` handed to the caller
StoreGetTransaction(id) ==
    /\ id \in DOMAIN heap.transactions
    /\ Len(heap.objects) + 1 <= MaxObjects
    /\ heap' = [heap EXCEPT !.objects = Spread(@, heap.transactions[id]),
                            !.held = @ \cup {Len(heap.objects) + 1}]
    /\ ret' = Return("getTransaction", id,
                     TransactionValue(heap.objects, heap.transactions[id]))
    /\ UNCHANGED <<ledger, now, nextId, memory, calls, queue, builds, reader, pay, snapshot>>

\* a caller builds a decision and passes it to DataStore.saveDecision, which
\* keeps `{ ...decision }`
StoreSaveDecision(requestId, recommendation, max) ==
    /\ Len(heap.objects) + 3 <= MaxObjects
    /\ LET n == Len(heap.objects)
           built == heap.objects
                    \o << [max_amount |-> max],
                          [recommendation |-> recommendation,
                           suggested_constraints |-> n + 1] >>
       IN  heap' = [heap EXCEPT !.objects = Spread(built, n + 2),
                                !.decisions = (requestId :> n + 3) @@ @,
                                !.held = @ \cup {n + 2}]
    /\ UNCHANGED <<ledger, now, nextId, memory, calls, queue, ret, builds, reader, pay, snapshot>>

\* DataStore.getDecision: `{ ...decision }` handed to the caller
StoreGetDecision(requestId) ==
    /\ requestId \in DOMAIN heap.decisions
    /\ Len(heap.objects) + 1 <= MaxObjects
    /\ heap' = [heap EXCEPT !.objects = Spread(@, heap.decisions[requestId]),
                            !.held = @ \cup {Len(heap.objects) + 1}]
    /\ ret' = Return("getDecision", requestId,
                     DecisionValue(heap.objects, heap.decisions[requestId]))
    /\ UNCHANGED <<ledger, now, nextId, memory, calls, queue, builds, reader, pay, snapshot>>

\* a caller assigns a field of an object it passed to save or retrieved, or
\* of an object nested in it
ClientModify(a, path) ==
    /\ heap.modified < MaxModifications
    /\ a \in heap.held
    /\ HasPath(heap.objects, a, path)
    /\ LET object == Target(heap.objects, a, path)
           field == path[Len(path)]
       IN  \E value \in FieldValues[field] \ {heap.objects[object][field]} :
               heap' = [heap EXCEPT !.objects[object][field] = value,
                                    !.modified = @ + 1]
    /\ UNCHANGED <<ledger, now, nextId, memory, calls, queue, ret, builds, reader, pay, snapshot>>

----------------------------------------------------------------------------
(* Specifications *)

\* the store under concurrent evaluations with well-formed decisions
Next ==
    \/ Tick
    \/ \E c \in Callers, q \in ValidRequests : EvaluateFallback(c, q)
    \/ \E c \in Callers, q \in ValidRequests, d \in ValidDecisions :
           Evaluate(c, q, d, Cardinality(Callers))
    \/ \E c \in Callers : Resume(c)

Spec == Init /\ [][Next]_vars

\* the store fed one evaluation at a time, requests and decisions of any shape
NextInvalid ==
    \/ Tick
    \/ \E c \in Callers, q \in InvalidRequests : Reject(c, q)
    \/ \E c \in Callers, q \in ValidRequests, d \in ValidDecisions \cup MalformedDecisions :
           Evaluate(c, q, d, 1)
    \/ \E c \in Callers : Resume(c)

SpecInvalid == Init /\ [][NextInvalid]_vars

\* the store and a ledger that grows and changes under it
LedgerAmounts == {15}
LedgerDecisions == {Decision("LOW", <<>>, 10, "approve", {})}

NextLedger ==
    \/ Tick
    \/ Len(ledger) < MaxProfileLedger /\ \E r \in Recipients, a \in LedgerAmounts :
           SaveTransaction(r, a, NoPurpose)
    \/ \E i \in 1 .. Len(ledger), st \in Statuses : UpdateTransaction(i, st)
    \/ \E c \in Callers, q \in ValidRequests, d \in LedgerDecisions : Evaluate(c, q, d, 1)
    \/ \E c \in Callers : Resume(c)
    \/ \E r \in Recipients : GetRecipientProfile(r)

SpecLedger == Init /\ [][NextLedger]_vars

\* the profile builder over ledgers of every shape
BuildInputs ==
    {Request("0xa", 15, "coffee"), Request("0xa", 60, NoPurpose), Request("0xb", 60, "coffee")}

NextBuild ==
    \/ Tick
    \/ Len(ledger) < MaxBuildLedger /\ \E q \in BuildInputs :
           SaveTransaction(q.recipient, q.amount, q.purpose)
    \/ \E r \in Recipients : BuildRecipientProfile(r)

SpecBuild == Init /\ [][NextBuild]_vars

\* the detectors over ledgers of every shape
DetectAmounts == {49, 50}
UnsavedAmounts == {15, 49, 50, 60}

\* a transaction handed to detectPatterns that the ledger does not hold
Unsaved(recipient, amount) ==
    [id |-> MockTransactionId(nextId + 1), timestamp |-> now, recipient |-> recipient,
     amount |-> amount, purpose |-> NoPurpose, status |-> "pending"]

NextDetect ==
    \/ Len(ledger) < MaxDetectLedger /\ \E r \in Recipients, a \in DetectAmounts :
           SaveTransaction(r, a, NoPurpose)
    \/ \E i \in 1 .. Len(ledger) : DetectPatterns(ledger[i])
    \/ \E r \in Recipients, a \in UnsavedAmounts : DetectPatterns(Unsaved(r, a))

SpecDetect == Init /\ [][NextDetect]_vars

\* small payments fed to the ledger one after the other, each one examined by
\* detectPatterns once it is saved
CoffeeAmounts == {15, 49}

NextCoffee ==
    \/ Len(ledger) < MaxCoffeeLedger /\ \E r \in Recipients, a \in CoffeeAmounts :
           SaveTransaction(r, a, "coffee")
    \/ ledger # <<>> /\ DetectPatterns(ledger[Len(ledger)])

SpecCoffee == Init /\ [][NextCoffee]_vars

\* payments that split the ledger spend between two counterparties
ShareAmounts == {30, 70}

NextShare ==
    \/ Len(ledger) < MaxShareLedger /\ \E r \in Recipients, a \in ShareAmounts :
           SaveTransaction(r, a, NoPurpose)
    \/ \E i \in 1 .. Len(ledger) : DetectPatterns(ledger[i])

SpecShare == Init /\ [][NextShare]_vars

\* one evaluation that names two pattern types, and sensitivity adaptations
\* arriving before, during and after it
PatternTypes == {"recurring_micro_costs", "vendor_concentration"}
Outcomes == {"success", "failure"}
RandomSuffixes == {"k3j9x2m1q"}
AdaptDecisions ==
    {Decision("MEDIUM", <<"recurring_micro_costs", "vendor_concentration">>, -10,
              "approve", {})}

NextAdapt ==
    \/ nextId = 0 /\ \E c \in Callers, d \in AdaptDecisions :
           Evaluate(c, Request("0xa", 15, "coffee"), d, 1)
    \/ \E c \in Callers : Resume(c)
    \/ \E ty \in PatternTypes, o \in Outcomes, x \in RandomSuffixes :
           AdaptSensitivity(ty, o, x)

SpecAdapt == Init /\ [][NextAdapt]_vars

\* evaluations that raise signals, an operator who resolves them, and the
\* reads of signals and status
SignalDecisions ==
    {Decision("HIGH", <<"recurring_micro_costs">>, -10, "modify", {}),
     Decision("LOW", <<>>, 10, "approve", {})}

NextSignals ==
    \/ \E c \in Callers, d \in SignalDecisions :
           Evaluate(c, Request("0xa", 15, "coffee"), d, 1)
    \/ \E c \in Callers : Resume(c)
    \/ \E i \in 1 .. Len(memory.signals) : ResolveSignal(i)
    \/ GetActiveRiskSignals
    \/ StatusScore
    \/ StatusSignals
    \/ StatusRespond

SpecSignals == Init /\ [][NextSignals]_vars

\* evaluations followed by payments of the evaluated requests
PayAmounts == {1000, 2500}
PayDecisions ==
    {Decision("MEDIUM", <<"vendor_concentration">>, 10, "approve", {}),
     Decision("HIGH", <<"recurring_micro_costs">>, -10, "reject", {})}

NextPay ==
    \/ \E c \in Callers, d \in PayDecisions :
           Evaluate(c, Request("0xa", 1000, "coffee"), d, 1)
    \/ \E c \in Callers : Resume(c)
    \/ \E p \in PayCallers, n \in 1 .. MaxCalls, amount \in PayAmounts :
           ExecutePayment(p, n, "0xa", amount)
    \/ \E p \in PayCallers : PayResume(p)
    \/ \E p \in PayCallers, result \in PaymentResults : PaySettle(p, result)
    \/ \E p \in PayCallers : PayConfirm(p)

SpecPay == Init /\ [][NextPay]_vars

\* the DataStore and a caller that keeps and modifies the objects it passed
\* and retrieved
NextStore ==
    \/ \E id \in StoreIds, amount \in StoreAmounts, status \in StoreStatuses,
          recommendation \in StoreRecommendations, max \in StoreMaxAmounts :
           StoreSaveTransaction(id, amount, status, recommendation, max)
    \/ \E id \in StoreIds : StoreGetTransaction(id)
    \/ \E requestId \in 1 .. MaxCalls, recommendation \in StoreRecommendations,
          max \in StoreMaxAmounts :
           StoreSaveDecision(requestId, recommendation, max)
    \/ \E requestId \in 1 .. MaxCalls : StoreGetDecision(requestId)
    \/ \E a \in 1 .. MaxObjects, path \in FieldPaths : ClientModify(a, path)

SpecStore == Init /\ [][NextStore]_vars

\* payments of one evaluated request, retried and cancelled
RetryAmounts == {2500, 2600}
RetryDecisions == {Decision("LOW", <<>>, 10, "approve", {})}

NextRetry ==
    \/ nextId = 0 /\ \E c \in Callers, d \in RetryDecisions :
           Evaluate(c, Request("0xa", 1000, "coffee"), d, 1)
    \/ \E c \in Callers : Resume(c)
    \/ \E p \in PayCallers, amount \in RetryAmounts : ExecutePayment(p, 1, "0xa", amount)
    \/ \E p \in PayCallers : PayResume(p)
    \/ \E p \in PayCallers, result \in PaymentResults : PaySettle(p, result)
    \/ \E p \in PayCallers : PayConfirm(p)
    \/ \E p \in PayCallers, i \in 1 .. MaxPayments : RetryTransaction(p, i)
    \/ \E i \in 1 .. MaxPayments : CancelTransaction(i)

SpecRetry == Init /\ [][NextRetry]_vars

\* the awaited promises of a call settle and its timer fires
RetryFairness ==
    \A p \in PayCallers :
        /\ WF_vars(PayResume(p))
        /\ WF_vars(\E result \in PaymentResults : PaySettle(p, result))
        /\ WF_vars(PayConfirm(p))

SpecRetryFair == SpecRetry /\ RetryFairness

\* round and odd payments to one counterparty, examined by both convenience
\* checks before and after they are saved
BiasAmounts == {15, 60, 110}

NextBias ==
    \/ Len(ledger) < MaxBiasLedger /\ \E a \in BiasAmounts :
           SaveTransaction("0xa", a, NoPurpose)
    \/ ledger # <<>> /\ DetectPatterns(ledger[Len(ledger)])
    \/ \E a \in BiasAmounts : DetectPatterns(Unsaved("0xa", a))
    \/ \E a \in BiasAmounts : BuildImmuneContext("0xa", a)

SpecBias == Init /\ [][NextBias]_vars

\* payments to one counterparty that rise by 20% and 50% and around, among
\* payments to another
DeclineAmounts == {10, 12, 20}

NextDecline ==
    \/ now = 0 /\ Tick
    \/ Len(ledger) < MaxDeclineLedger /\ \E a \in DeclineAmounts :
           SaveTransaction("0xa", a, NoPurpose)
    \/ Len(ledger) < MaxDeclineLedger /\ SaveTransaction("0xb", 10, NoPurpose)
    \/ ledger # <<>> /\ DetectPatterns(ledger[Len(ledger)])
    \/ \E r \in Recipients : DetectPatterns(Unsaved(r, 10))

SpecDecline == Init /\ [][NextDecline]_vars

\* profiles built over payments to one counterparty spread over a longer time
CadenceAmounts == {15, 60}

NextCadence ==
    \/ Elapse
    \/ Len(ledger) < MaxBuildLedger /\ \E a \in CadenceAmounts :
           SaveTransaction("0xa", a, NoPurpose)
    \/ BuildRecipientProfile("0xa")

SpecCadence == Init /\ [][NextCadence]_vars








----------------------------------------------------------------------------
(* Claims about the store under concurrent evaluations (Spec) *)

\* the calls whose updateMemoryFromTransaction completes in this step
Finishing == {c \in Callers : calls[c].pc = "loop" /\ calls'[c].pc = "done"}

ScoreStep ==
    IF Finishing # {}
    THEN \E c \in Finishing :
            memory'.resilienceScore =
                Min(100, Max(0, memory.resilienceScore
                                    + calls[c].decision.resilience_impact))
    ELSE memory'.resilienceScore = memory.resilienceScore

\* C1: the resilience score starts at 75 and is within [0,100] in every
\* reachable state; a completing updateMemoryFromTransaction moves it from s to
\* min(100, max(0, s + delta)) and no other step moves it.
C1_ScoreClamped ==
    /\ memory.resilienceScore = InitialResilience
    /\ [](memory.resilienceScore \in 0 .. 100)
    /\ [][ScoreStep]_vars

\* a delta of -150 was applied and the score stopped at the floor
C1_Witness ==
    \E c \in Callers :
        /\ calls[c].pc = "done"
        /\ calls[c].decision.resilience_impact = -150
        /\ memory.resilienceScore = 0

\* C2: the store never holds two Patterns with the same (pattern type,
\* counterparty) pair.
C2_OnePatternPerPair ==
    \A i, j \in 1 .. Len(memory.patterns) :
        i # j => memory.patterns[i].description # memory.patterns[j].description

SignalStep ==
    IF \E c \in Finishing : calls[c].decision.threat_level \in {"HIGH", "CRITICAL"}
    THEN \E c \in Finishing :
            /\ Len(memory'.signals) = Len(memory.signals) + 1
            /\ SubSeq(memory'.signals, 1, Len(memory.signals)) = memory.signals
            /\ LET signal == memory'.signals[Len(memory'.signals)]
               IN  /\ signal.relatedTransactions = <<calls[c].tx.id>>
                   /\ ~signal.isResolved
    ELSE memory'.signals = memory.signals

\* C3: a completing updateMemoryFromTransaction whose decision is HIGH or
\* CRITICAL appends exactly one unresolved Risk Signal naming that transaction;
\* one whose decision is LOW or MEDIUM, and every other step, leaves the signal
\* list as it was.
C3_SignalThreshold == [][SignalStep]_vars

\* a HIGH call and a LOW or MEDIUM call have completed, and the only signal
\* is the HIGH call's
C3_Witness ==
    \E c, k \in Callers :
        /\ calls[c].pc = "done" /\ calls[c].decision.threat_level = "HIGH"
        /\ calls[k].pc = "done" /\ calls[k].decision.threat_level \in {"LOW", "MEDIUM"}
        /\ Len(memory.signals) = 1
        /\ memory.signals[1].relatedTransactions = <<calls[c].tx.id>>

\* one whole updateMemoryFromTransaction, run without interruption at time t
RECURSIVE RecordAll(_, _, _, _)
RecordAll(mem, call, from, t) ==
    IF from > Len(call.decision.patterns_detected) THEN mem
    ELSE RecordAll(recordPatternDetection(mem, call.decision.patterns_detected[from],
                                          call.tx, call.decision.threat_level, t),
                   call, from + 1, t)

RunCall(mem, call, t) ==
    FinishUpdate(RecordAll(updateRecipientProfile(mem, call.tx, t), call, 1, t),
                 call.tx, call.decision, t)

\* what of a memory does not depend on the clock: the score, the signals in
\* order, for each (type, counterparty) its occurrences in order, the profiles
RECURSIVE OccurrencesOf(_, _)
OccurrencesOf(patterns, key) ==
    IF patterns = <<>> THEN <<>>
    ELSE (IF patterns[1].description = key
          THEN [i \in 1 .. Len(patterns[1].occurrences) |->
                   patterns[1].occurrences[i].transactionId]
          ELSE <<>>) \o OccurrencesOf(Tail(patterns), key)

Observed(mem) ==
    [score |-> mem.resilienceScore,
     signals |-> [i \in 1 .. Len(mem.signals) |-> mem.signals[i].relatedTransactions],
     occurrences |->
        [key \in {mem.patterns[i].description : i \in 1 .. Len(mem.patterns)} |->
            OccurrencesOf(mem.patterns, key)],
     profiles |->
        [r \in Recipients |->
            IF mem.recipients[r] = <<>> THEN <<>>
            ELSE <<mem.recipients[r][1].transactionHistory>>]]

\* C6: when two updateMemoryFromTransaction calls have been in flight together
\* and both have completed, the memory equals the result of running them one
\* after the other in one of the two orders.
C6_Serializable ==
    (nextId = 2 /\ calls[1].pc = "done" /\ calls[2].pc = "done")
        => Observed(memory) \in
              { Observed(RunCall(RunCall(NewMemory(0), calls[1], 0), calls[2], 0)),
                Observed(RunCall(RunCall(NewMemory(0), calls[2], 0), calls[1], 0)) }

----------------------------------------------------------------------------
(* Claims about failing and malformed calls (SpecInvalid) *)

\* the recipient profiles, patterns, signals and score of a memory
Core(mem) ==
    [recipients |-> mem.recipients, patterns |-> mem.patterns,
     signals |-> mem.signals, resilienceScore |-> mem.resilienceScore]

\* C4: when a step of updateMemoryFromTransaction fails, the recipient
\* profiles, patterns, signals and score equal their values before the call.
C4_AllOrNothing ==
    [][\A c \in Callers :
          (calls[c].pc = "loop" /\ calls'[c].pc = "failed")
              => Core(memory') = Core(calls[c].before)]_vars

\* the steps taken by a call whose decision lacks a required field
MalformedStep ==
    \E c \in Callers :
        /\ calls'[c] # calls[c]
        /\ calls'[c].pc \in {"loop", "done", "failed"}
        /\ calls'[c].decision.missing # {}

\* C5: a call whose request validateProposal refuses, or whose decision lacks
\* threat_level, patterns_detected or resilience_impact, changes no profile,
\* pattern, score or signal.
C5_InvalidInputRejected ==
    [][(MalformedStep \/ \E c \in Callers : calls'[c].pc = "rejected" /\ calls[c] # calls'[c])
          => Core(memory') = Core(memory)]_vars

----------------------------------------------------------------------------
(* Claims about profiles and the ledger (SpecLedger) *)

\* the four history figures of a profile
History(profile) ==
    [count |-> profile.transactionHistory.count,
     totalAmount |-> profile.transactionHistory.totalAmount,
     averageAmount |-> profile.transactionHistory.averageAmount,
     purposes |-> profile.transactionHistory.purposes]

\* C7: when updateMemoryFromTransaction for a counterparty completes, the
\* profile stored for it has the count, total, average and purpose histogram
\* of the profile built from that counterparty's current ledger history.
C7_ProfileRecomputed ==
    [][\A c \in Finishing :
          LET r == calls[c].tx.recipient
          IN  /\ memory'.recipients[r] # <<>>
              /\ History(memory'.recipients[r][1]) =
                     History(buildRecipientProfile(r, ForRecipient(ledger, r), ledger, now))]_vars

\* C9: getRecipientProfile returns a profile only when the ledger holds a
\* completed or pending transaction for the address, and when it returns null
\* no profile is stored for the address.
C9_ProfileOnlyWithHistory ==
    [][(ret' # ret /\ ret'.op = "getRecipientProfile")
          => /\ ret'.value # <<>> =>
                   \E i \in 1 .. Len(ledger) :
                       /\ ledger[i].recipient = ret'.arg
                       /\ ledger[i].status \in {"completed", "pending"}
             /\ ret'.value = <<>> => memory'.recipients[ret'.arg] = <<>>]_vars

----------------------------------------------------------------------------
(* Claims about the profile builder (SpecBuild) *)

\* count, total, average, purpose histogram, cadence class and risk vector
Figures(profile) ==
    [transactionHistory |-> profile.transactionHistory,
     riskAssessment |-> profile.riskAssessment]

\* C8: two builds of the profile of one counterparty with no ledger change
\* between them have the same count, total, average, purpose histogram,
\* cadence class and risk vector.
C8_BuildIdempotent ==
    \A i, j \in 1 .. Len(builds) :
        (builds[i].address = builds[j].address /\ builds[i].seen = builds[j].seen)
            => Figures(builds[i].profile) = Figures(builds[j].profile)

\* a counterparty with two transactions built at two different times over
\* the same ledger
C8_Witness ==
    /\ Len(builds) = 2
    /\ builds[1].address = builds[2].address
    /\ builds[1].seen = builds[2].seen
    /\ builds[1].at # builds[2].at
    /\ builds[1].profile.transactionHistory.count >= 2
    /\ builds[2].profile.transactionHistory.count >= 2

----------------------------------------------------------------------------
(* Claims about the detectors (SpecDetect) *)

\* the detectPatterns result holds a Recurring Micro-Costs pattern
MicroFired(value) ==
    \E i \in 1 .. Len(value) : value[i].type = "recurring_micro_costs"

\* the ledger transactions to the counterparty of tx below the threshold
MicroLedger(tx) ==
    {i \in 1 .. Len(ledger) :
        ledger[i].recipient = tx.recipient /\ ledger[i].amount < 50}

----------------------------------------------------------------------------
(* Claims about the coffee subscription (SpecCoffee) *)

\* the Recurring Micro-Costs pattern of a detectPatterns result that holds one
MicroPattern(value) ==
    value[CHOOSE i \in 1 .. Len(value) : value[i].type = "recurring_micro_costs"]

\* the ledger is nothing but payments of 15 to one counterparty
OnlyCoffee ==
    \A i \in 1 .. Len(ledger) :
        ledger[i].amount = 15 /\ ledger[i].recipient = ledger[1].recipient

\* the sum of the ledger payments below 50 to the counterparty of tx
MicroTotal(tx) ==
    SumAmounts(SelectSeq(ledger, LAMBDA l : l.recipient = tx.recipient /\ l.amount < 50))

CoffeeStep ==
    LET value == ret'.value
        total == MicroTotal(ret'.arg)
    IN  /\ OnlyCoffee =>
              /\ Len(ledger) \in {1, 2} => ~MicroFired(value)
              /\ Len(ledger) = 3 =>
                    /\ MicroFired(value)
                    /\ MicroPattern(value).totalImpact = Whole(45)
              /\ Len(ledger) = 4 =>
                    /\ MicroFired(value)
                    /\ MicroPattern(value).totalImpact = Whole(60)
                    /\ MicroPattern(value).threatLevel = "LOW"
        /\ MicroFired(value) =>
              /\ MicroPattern(value).totalImpact = Whole(total)
              /\ MicroPattern(value).threatLevel = "HIGH" <=> total > 200
              /\ MicroPattern(value).threatLevel = "MEDIUM" <=> (total > 100 /\ total <= 200)
              /\ MicroPattern(value).threatLevel = "LOW" <=> total <= 100

----------------------------------------------------------------------------
(* Claims about the share of spend (SpecShare) *)

\* the ledger spend that went to the counterparty of tx, and the whole of it
ShareOf(tx) == SumAmounts(ForRecipient(ledger, tx.recipient))
Spend == SumAmounts(ledger)

ConcentrationFired(value) ==
    \E i \in 1 .. Len(value) : value[i].type = "vendor_concentration"

ConcentrationPattern(value) ==
    value[CHOOSE i \in 1 .. Len(value) : value[i].type = "vendor_concentration"]

\* C12: Vendor Concentration does not fire for a counterparty at exactly 30%
\* of the ledger spend; above 30% it fires, with threat level MEDIUM up to a
\* share of 60% and HIGH only above 60%.
C12_ConcentrationBoundary ==
    [][(ret' # ret /\ ret'.op = "detectPatterns")
          => LET mine == ShareOf(ret'.arg)
             IN  /\ 10 * mine = 3 * Spend => ~ConcentrationFired(ret'.value)
                 /\ 10 * mine > 3 * Spend =>
                       /\ ConcentrationFired(ret'.value)
                       /\ ConcentrationPattern(ret'.value).threatLevel =
                              IF 10 * mine > 6 * Spend THEN "HIGH" ELSE "MEDIUM"]_vars

----------------------------------------------------------------------------
(* Claims about sensitivity adaptation (SpecAdapt) *)

\* this step is an adaptSensitivity call
Adapting == ret' # ret /\ ret'.op = "adaptSensitivity"

\* the number of recorded events of a pattern type with an outcome
EventCount(mem, patternType, outcome) ==
    Cardinality({i \in 1 .. Len(mem.adaptations) :
                    /\ mem.adaptations[i].patternType = patternType
                    /\ mem.adaptations[i].outcome = outcome})

C14_AdaptationTrail ==
    [][IF Adapting
       THEN /\ Len(memory'.adaptations) = Len(memory.adaptations) + 1
            /\ SubSeq(memory'.adaptations, 1, Len(memory.adaptations)) = memory.adaptations
            /\ LET event == memory'.adaptations[Len(memory'.adaptations)]
               IN  /\ event.patternType = ret'.arg[1]
                   /\ event.outcome = ret'.arg[2]
                   /\ event.adjustment =
                          IF ret'.arg[2] = "success" THEN "maintain" ELSE "increase"
            /\ \A i \in 1 .. Len(memory.patterns) :
                   memory.patterns[i].type # ret'.arg[1] =>
                       memory'.patterns[i] = memory.patterns[i]
       ELSE memory'.adaptations = memory.adaptations]_vars

\* an event was recorded while no Pattern existed, another after a Pattern of
\* another type had been stored, and that Pattern still has confidence 0.5
C14_Witness ==
    /\ Len(memory.adaptations) >= 2
    /\ Len(memory.patterns) >= 1
    /\ memory.adaptations[1].adjustment = "maintain"
    /\ memory.adaptations[Len(memory.adaptations)].adjustment = "increase"
    /\ \A i \in 1 .. Len(memory.adaptations) :
           memory.adaptations[i].patternType = "vendor_concentration"
    /\ memory.patterns[1].type = "recurring_micro_costs"
    /\ memory.patterns[1].learningConfidence = Tenth(5)
    /\ \A i \in 1 .. Len(memory.patterns) : memory.patterns[i].type # "vendor_concentration"

----------------------------------------------------------------------------
(* Claims about pattern occurrences and signals (Spec) *)

\* the calls whose loop records one pattern-type label in this step
Recording ==
    {c \in Callers : /\ calls[c].pc = "loop" /\ calls'[c].pc = "loop"
                     /\ calls'[c].idx = calls[c].idx + 1}

RECURSIVE OccurrenceCount(_)
OccurrenceCount(patterns) ==
    IF patterns = <<>> THEN 0
    ELSE Len(patterns[1].occurrences) + OccurrenceCount(Tail(patterns))

\* every stored Pattern is still there with its occurrences as they were, in
\* their order, at the head of its list
OccurrencesKept ==
    /\ Len(memory'.patterns) >= Len(memory.patterns)
    /\ \A i \in 1 .. Len(memory.patterns) :
          /\ memory'.patterns[i].id = memory.patterns[i].id
          /\ Len(memory'.patterns[i].occurrences) >= Len(memory.patterns[i].occurrences)
          /\ SubSeq(memory'.patterns[i].occurrences, 1,
                    Len(memory.patterns[i].occurrences)) = memory.patterns[i].occurrences

\* the step stored one occurrence for the label being recorded by call c
OneOccurrence(c) ==
    LET call == calls[c]
        label == call.decision.patterns_detected[call.idx]
        level == call.decision.threat_level
    IN  /\ OccurrenceCount(memory'.patterns) = OccurrenceCount(memory.patterns) + 1
        /\ \E i \in 1 .. Len(memory'.patterns) :
              LET pattern == memory'.patterns[i]
                  occurrence == pattern.occurrences[Len(pattern.occurrences)]
              IN  /\ pattern.type = label
                  /\ pattern.description = <<label, call.tx.recipient>>
                  /\ occurrence.transactionId = call.tx.id
                  /\ occurrence.severity =
                        (IF level = "CRITICAL" THEN 10 ELSE IF level = "HIGH" THEN 8
                         ELSE IF level = "MEDIUM" THEN 6 ELSE 4)
                  /\ Len(pattern.occurrences) =
                        IF i <= Len(memory.patterns)
                        THEN Len(memory.patterns[i].occurrences) + 1 ELSE 1

\* C15: for each pattern-type label of the decision, updateMemoryFromTransaction
\* stores exactly one occurrence for the transaction (its id; severity 1.0 for
\* CRITICAL, 0.8 HIGH, 0.6 MEDIUM, 0.4 LOW, in tenths) in a Pattern of that
\* type and counterparty, created when there is none; no step stores an
\* occurrence otherwise, and stored occurrences are never removed, changed or
\* reordered.
C15_OccurrencesAppendOnly ==
    [][/\ OccurrencesKept
       /\ IF Recording # {}
          THEN \E c \in Recording : OneOccurrence(c)
          ELSE OccurrenceCount(memory'.patterns) = OccurrenceCount(memory.patterns)]_vars

\* a Pattern holds the occurrences of two transactions, a HIGH one and then a
\* CRITICAL one
C15_Witness ==
    \E i \in 1 .. Len(memory.patterns) :
        LET occurrences == memory.patterns[i].occurrences
        IN  /\ Len(occurrences) = 2
            /\ occurrences[1].transactionId # occurrences[2].transactionId
            /\ occurrences[1].severity = 8
            /\ occurrences[2].severity = 10

----------------------------------------------------------------------------
(* Claims about signals and the status read (SpecSignals) *)

\* the signals of a list whose resolved flag is false, in the order of the list
RECURSIVE Unresolved(_)
Unresolved(signals) ==
    IF signals = <<>> THEN <<>>
    ELSE (IF signals[1].isResolved THEN <<>> ELSE <<signals[1]>>)
             \o Unresolved(Tail(signals))

\* C16: no step removes a Risk Signal from the store, and getActiveRiskSignals
\* returns exactly the stored signals whose resolved flag is false, in stored
\* order, the empty list when there are none.
C16_SignalsKept ==
    [][/\ Len(memory'.signals) >= Len(memory.signals)
       /\ \A i \in 1 .. Len(memory.signals) : memory'.signals[i].id = memory.signals[i].id
       /\ (ret' # ret /\ ret'.op = "getActiveRiskSignals")
              => ret'.value = Unresolved(memory.signals)]_vars

\* two signals are stored, the first one resolved, and getActiveRiskSignals
\* returned the second alone
C16_Witness ==
    /\ Len(memory.signals) = 2
    /\ memory.signals[1].isResolved
    /\ ~memory.signals[2].isResolved
    /\ ret.op = "getActiveRiskSignals"
    /\ ret.value = <<memory.signals[2]>>

----------------------------------------------------------------------------
(* Claims about the payment service *)

\* the proposal of a call of executePayment
KeyOf(call) == ProposalKey(call.recipient, call.amount)

\* the proposal has been submitted through executePayment and is pending or
\* completed: a call of it is past the duplicate check and not over, or its
\* transaction is in the ledger and has not failed
Submitted(key) ==
    \/ \E q \in PayInFlight : KeyOf(pay.calls[q]) = key
    \/ \E i \in 1 .. Len(ledger) :
           /\ ProposalKey(ledger[i].recipient, ledger[i].amount) = key
           /\ ledger[i].status \in {"pending", "confirming", "completed"}

\* C17: once a proposal (recipient, amount) has been submitted through
\* executePayment and is pending or completed, every further executePayment
\* of the same proposal is rejected as a duplicate, one that arrives while
\* the first call is between its duplicate check and markProposalPending
\* included.
C17_DuplicateRejected ==
    [][\A p \in PayCallers :
           (/\ pay'.started = pay.started + 1
            /\ pay'.calls[p] # pay.calls[p]
            /\ Submitted(KeyOf(pay'.calls[p])))
           => pay'.calls[p].pc = "duplicate"]_vars

\* the request whose memory update a call of updateMemoryFromTransaction makes
RequestOf(call) == call.tx.id[2]

\* the payment of the request has been executed
PaymentExecuted(requestId) ==
    \E i \in 1 .. Len(ledger) :
        /\ "requestId" \in DOMAIN ledger[i]
        /\ ledger[i].requestId = requestId
        /\ ledger[i].status \in {"confirming", "completed"}

\* C20: updateMemoryFromTransaction is invoked only after the reasoning call
\* and the payment execution of the transaction have finished: the memory is
\* never updated for a proposal whose payment has not been executed.
C20_MemoryAfterPayment ==
    \A c \in Callers :
        calls[c].pc \in {"loop", "done"} => PaymentExecuted(RequestOf(calls[c]))

----------------------------------------------------------------------------
(* Claims about the DataStore *)

\* what getTransaction returns for every stored id
StoredTransactions ==
    [id \in DOMAIN heap.transactions |->
        TransactionValue(heap.objects, heap.transactions[id])]

\* what getDecision returns for every stored request id
StoredDecisions ==
    [requestId \in DOMAIN heap.decisions |->
        DecisionValue(heap.objects, heap.decisions[requestId])]

\* C18: modifying any field of a retrieved object, fields of its nested
\* objects (a transaction's decision, a decision's suggested_constraints)
\* included, or of the object that was passed to save, never changes what a
\* later getTransaction or getDecision returns.
C18_StoreIsolated ==
    [][heap'.modified = heap.modified + 1
          => /\ StoredTransactions' = StoredTransactions
             /\ StoredDecisions' = StoredDecisions]_vars

----------------------------------------------------------------------------
(* Claims about the memory and the ledger *)

\* the ids of the transaction records of the ledger
LedgerIds == {ledger[i].id : i \in 1 .. Len(ledger)}

\* C21: in every reachable state the transaction id of each Pattern
\* occurrence, and of each Risk Signal's related transactions, is the id of a
\* transaction record of the ledger.
C21_OccurrencesInLedger ==
    /\ \A i \in 1 .. Len(memory.patterns) :
           \A j \in 1 .. Len(memory.patterns[i].occurrences) :
               memory.patterns[i].occurrences[j].transactionId \in LedgerIds
    /\ \A i \in 1 .. Len(memory.signals) :
           \A j \in 1 .. Len(memory.signals[i].relatedTransactions) :
               memory.signals[i].relatedTransactions[j] \in LedgerIds

\* C22: when an occurrence is appended to a Pattern that already exists, the
\* Pattern's threat level and cumulative monetary impact are recomputed to
\* account for it: the threat level is the new decision's, the impact grows by
\* the new transaction's amount.
C22_PatternRecomputed ==
    [][\A c \in Recording :
           \A i \in 1 .. Len(memory.patterns) :
               Len(memory'.patterns[i].occurrences) > Len(memory.patterns[i].occurrences)
                   => /\ memory'.patterns[i].threatLevel = calls[c].decision.threat_level
                      /\ memory'.patterns[i].totalImpact =
                             Whole(memory.patterns[i].totalImpact.num + calls[c].tx.amount)]_vars

----------------------------------------------------------------------------
(* Claims about the lifecycle of transactions and the balance *)

\* how far along pending -> confirming -> completed | failed a status is
StatusRank(status) ==
    IF status = "pending" THEN 0 ELSE IF status = "confirming" THEN 1 ELSE 2

\* C23: a transaction's status only moves forward along pending -> confirming
\* -> completed | failed, and once a record is completed or failed no
\* operation (the confirmation timer, retryTransaction, cancelTransaction)
\* changes its status again.
C23_StatusForward ==
    [][\A i \in 1 .. Len(ledger) :
           /\ StatusRank(ledger'[i].status) >= StatusRank(ledger[i].status)
           /\ ledger[i].status \in {"completed", "failed"}
                  => ledger'[i].status = ledger[i].status]_vars

\* C28: after any sequence of executePayment calls, concurrent calls for
\* different proposals included, the simulated balance is never below the
\* reserve minimum.
C28_ReserveKept == pay.balance >= ReserveMinimum

\* the i-th record of the ledger is completed or failed
Finalized(i) == Len(ledger) >= i /\ ledger[i].status \in {"completed", "failed"}

\* C29: every transaction record created by executePayment eventually reaches
\* status completed or failed, and so does the original record of a
\* transaction that is retried, whether the retry succeeds, fails during
\* payment or is refused before payment.
C29_EventuallyFinal ==
    \A i \in 1 .. MaxPayments : [](Len(ledger) >= i => <>Finalized(i))

----------------------------------------------------------------------------
(* Claims about the convenience, declining value and cadence rules *)

\* the round, large transactions of the ledger
RoundLedger == SelectSeq(ledger, IsRoundAmount)

\* the patterns of this type among the ones detectPatterns returned
OfType(patterns, type) == SelectSeq(patterns, LAMBDA pattern : pattern.type = type)

\* C24: the Convenience Bias detector fires only when the new transaction's
\* amount is a multiple of 10 above 50 and the round, large transactions are
\* at least 60% of the ledger transactions; its threat level is MEDIUM when
\* the share is above 80% and LOW otherwise; with an empty ledger it does not
\* fire.
C24_ConvenienceBias ==
    [][/\ (ret' # ret /\ ret'.op = "detectPatterns")
            => \A i \in 1 .. Len(OfType(ret'.value, "convenience_bias")) :
                  /\ IsRoundAmount(ret'.arg)
                  /\ ledger # <<>>
                  /\ 10 * Len(RoundLedger) >= 6 * Len(ledger)
                  /\ OfType(ret'.value, "convenience_bias")[i].threatLevel =
                         IF 10 * Len(RoundLedger) > 8 * Len(ledger) THEN "MEDIUM" ELSE "LOW"
       /\ (/\ ret' # ret /\ ret'.op = "buildImmuneContext"
           /\ \E i \in 1 .. Len(ret'.value) : ret'.value[i] = "convenience_bias")
                  => /\ ret'.arg % RoundAmountBase = 0 /\ ret'.arg > RoundAmountFloor
                     /\ ledger # <<>>
                     /\ 10 * Len(RoundLedger) >= 6 * Len(ledger)]_vars

\* the ledger transactions of the counterparty of the transaction that
\* detectPatterns was given
CounterpartyLedger == ForRecipient(ledger, ret'.arg.recipient)

\* the sums of the latest two and of the earliest two of them
LatestTwo ==
    CounterpartyLedger[Len(CounterpartyLedger)].amount
    + CounterpartyLedger[Len(CounterpartyLedger) - 1].amount
EarliestTwo == CounterpartyLedger[1].amount + CounterpartyLedger[2].amount

\* C25: the Declining Value detector fires exactly when the new transaction's
\* counterparty has at least 4 ledger transactions and, with those ordered by
\* timestamp (the ledger's order), the mean of the latest 2 amounts exceeds the
\* mean of the earliest 2 by more than 20%; its threat level is HIGH when the
\* increase exceeds 50% and MEDIUM otherwise.
C25_DecliningValue ==
    /\ [](\A i \in 1 .. Len(ledger) - 1 : ledger[i].timestamp <= ledger[i + 1].timestamp)
    /\ [][(ret' # ret /\ ret'.op = "detectPatterns")
            => LET fired == OfType(ret'.value, "declining_value")
               IN  IF Len(CounterpartyLedger) >= 4 /\ 5 * LatestTwo > 6 * EarliestTwo
                   THEN /\ Len(fired) = 1
                        /\ fired[1].threatLevel =
                               IF 2 * LatestTwo > 3 * EarliestTwo THEN "HIGH" ELSE "MEDIUM"
                   ELSE fired = <<>>]_vars

\* the counterparty's payments went from 10 and 10 to 10 and 20, an increase
\* of exactly 50%, and the detector fired with MEDIUM
C25_Witness ==
    /\ ret.op = "detectPatterns"
    /\ Len(ForRecipient(ledger, ret.arg.recipient)) = 4
    /\ \A i \in 1 .. 3 : ForRecipient(ledger, ret.arg.recipient)[i].amount = 10
    /\ ForRecipient(ledger, ret.arg.recipient)[4].amount = 20
    /\ Len(OfType(ret.value, "declining_value")) = 1
    /\ OfType(ret.value, "declining_value")[1].threatLevel = "MEDIUM"

\* the transactions of the counterparty that a build of its profile saw
SeenBy(build) == ForRecipient(SubSeq(ledger, 1, build.seen), build.address)

\* the sum over the time deltas d between consecutive transactions of
\* (n * d - total) squared, n the number of deltas and total their sum: n cubed
\* times their variance
DeltaSpread(txs) ==
    LET n == Len(txs) - 1
        total == txs[Len(txs)].timestamp - txs[1].timestamp
        dev(i) == n * (txs[i + 1].timestamp - txs[i].timestamp) - total
        RECURSIVE Squares(_)
        Squares(i) == IF i = 0 THEN 0 ELSE dev(i) * dev(i) + Squares(i - 1)
    IN  Squares(n)

\* the cadence class the rule gives these transactions
Cadence(txs) ==
    LET n == Len(txs) - 1
        total == txs[Len(txs)].timestamp - txs[1].timestamp
    IN  IF Len(txs) < 3 THEN "sporadic"
        \* variance < 30% of the mean: spread / n^3 < 3/10 * total / n
        ELSE IF 10 * DeltaSpread(txs) < 3 * n * n * total THEN "regular"
        ELSE IF \A i \in 1 .. n : txs[i].amount <= txs[i + 1].amount THEN "increasing"
        ELSE IF \A i \in 1 .. n : txs[i].amount >= txs[i + 1].amount THEN "decreasing"
        ELSE "sporadic"

\* C26: the cadence class of a profile is 'sporadic' when the counterparty has
\* fewer than 3 transactions; otherwise 'regular' when the variance of the time
\* deltas between consecutive transactions is below 30% of their mean, else
\* 'increasing' when the amounts are non-decreasing, else 'decreasing' when
\* they are non-increasing, else 'sporadic'.
C26_CadenceClass ==
    \A i \in 1 .. Len(builds) :
        builds[i].profile.transactionHistory.timePattern = Cadence(SeenBy(builds[i]))

\* three transactions at even intervals are classed 'regular' although their
\* amounts go down and then up
C26_Witness ==
    \E i \in 1 .. Len(builds) :
        /\ Len(SeenBy(builds[i])) = 3
        /\ SeenBy(builds[i])[1].amount > SeenBy(builds[i])[2].amount
        /\ SeenBy(builds[i])[2].amount < SeenBy(builds[i])[3].amount
        /\ builds[i].profile.transactionHistory.timePattern = "regular"

\* detectPatterns called while the memory holds patterns, profiles, signals and
\* adaptation events
NextPure ==
    \/ Len(ledger) < MaxDetectLedger /\ SaveTransaction("0xa", 15, "coffee")
    \/ nextId = 0 /\ \E c \in Callers, d \in SignalDecisions :
           Evaluate(c, Request("0xa", 15, "coffee"), d, 1)
    \/ \E c \in Callers : Resume(c)
    \/ memory.adaptations = <<>> /\ \E o \in Outcomes, x \in RandomSuffixes :
           AdaptSensitivity("recurring_micro_costs", o, x)
    \/ ledger # <<>> /\ DetectPatterns(ledger[Len(ledger)])
    \/ DetectPatterns(Unsaved("0xa", 15))

SpecPure == Init /\ [][NextPure]_vars

\* C27: detectPatterns and the four detectors are pure with respect to the
\* store: the patterns, recipient profiles, signals, adaptation events,
\* resilience score and the ledger are identical before and after any
\* detectPatterns call, whether or not a detector fires.
C27_DetectPure ==
    [][ret' # ret /\ ret'.op = "detectPatterns" =>
           /\ memory'.patterns = memory.patterns
           /\ memory'.recipients = memory.recipients
           /\ memory'.signals = memory.signals
           /\ memory'.adaptations = memory.adaptations
           /\ memory'.resilienceScore = memory.resilienceScore
           /\ ledger' = ledger]_vars

\* a detector has fired in a detectPatterns call made while the memory held a
\* pattern, a profile, a signal and an adaptation event
C27_Witness ==
    /\ ret.op = "detectPatterns"
    /\ ret.value # <<>>
    /\ memory.signals # <<>>
    /\ memory.adaptations # <<>>
    /\ memory.resilienceScore # InitialResilience
    /\ memory.patterns # <<>>
    /\ memory.recipients["0xa"] # <<>>

\* a caller takes the memory object and the memory is updated afterwards
NextSnapshot ==
    \/ Tick
    \/ \E c \in Callers, d \in SignalDecisions :
           Evaluate(c, Request("0xa", 15, "coffee"), d, 1)
    \/ \E c \in Callers : Resume(c)
    \/ memory.adaptations = <<>> /\ \E o \in Outcomes, x \in RandomSuffixes :
           AdaptSensitivity("recurring_micro_costs", o, x)
    \/ GetMemory

SpecSnapshot == Init /\ [][NextSnapshot]_vars

\* C30: a memory snapshot returned by getMemory is a stable copy: after a later
\* recordTransactionOutcome or adaptSensitivity, the snapshot's patterns,
\* recipient profiles, signals, adaptation events and score still equal their
\* values at the time getMemory was called.
C30_SnapshotStable ==
    snapshot.held =>
        /\ SnapshotValue.patterns = snapshot.at.patterns
        /\ SnapshotValue.recipients = snapshot.at.recipients
        /\ SnapshotValue.signals = snapshot.at.signals
        /\ SnapshotValue.adaptations = snapshot.at.adaptations
        /\ SnapshotValue.resilienceScore = snapshot.at.resilienceScore

====
